---- MODULE Spec2Model ----
(***************************************************************************)
(* Model of traffic-control.py: the billing-cycle calculator               *)
(* (get_cycle_timestamps), the usage reader (get_current_bytes), the       *)
(* rate formula and the control loop of main().                            *)
(*                                                                         *)
(* Units.  Instants are whole seconds since the Unix epoch.  Byte counts   *)
(* are sampled at multiples of 2^29 bytes (half a GiB, one "unit"), so     *)
(* that the quota, the threshold, the buffer and the hard limit are all    *)
(* whole numbers of units.  A rate is the whole number of kbit/s that      *)
(* update_tc_limit hands to tc (int(rate_kbps)), kept as a sequence of     *)
(* base-100 digits because it can exceed 2^31.                             *)
(***************************************************************************)
EXTENDS Integers, Sequences, FiniteSets, TLC

VARIABLES
    clock,                \* the host's real time, seconds since the epoch
    tz,                   \* the host's local offset from UTC, in seconds
    startDay,             \* the configured CYCLE_START_DAY
    pc,                   \* where the process is
    state,                \* the state dict of main()
    tc_initialized,       \* main()'s tc_initialized: interface -> BOOLEAN
    consecutive_failures, \* main()'s consecutive_failures
    cycle,                \* the last result of get_cycle_timestamps
    current_time,         \* int(time.time()) of the tick
    time_remaining_sec,   \* max(1, cycle["end"] - current_time) of the tick
    idx,                  \* position of a per-interface read loop
    total_units,          \* total_bytes_used of the tick, in units of 2^29 bytes
    target_rate_kbps,     \* the rate computed by the tick (digits), <<>> if none
    calls,                \* the enforcement calls issued so far in the tick
    rolled,               \* whether the tick has replaced the state (rollover)
    entry,                \* the control fields of the state as the tick found them
    budget,               \* how many more errors the environment raises
    last_read,            \* the last call of get_current_bytes in the tick
    raised,               \* what raised the exception that ended the tick
    failed_ticks,         \* ticks that ended in the handler since one that did not
    missing,              \* keys the loaded state dict does not have
    resets,               \* the cycle last reset for, and how often it was
    block_issued          \* interfaces block_network was called for since the last reset

vars == <<clock, tz, startDay, pc, state, tc_initialized, consecutive_failures,
          cycle, current_time, time_remaining_sec, idx, total_units,
          target_rate_kbps, calls, rolled, entry, budget, last_read, raised,
          failed_ticks, missing, resets, block_issued>>

---------------------------------------------------------------------------
(* Configuration constants of the script *)

TOTAL_QUOTA_GB == 1000
THRESHOLD_PERCENT == 90
BUFFER_PERCENT == 1
\* SAFETY_FACTOR = 0.99, as a percentage
SAFETY_FACTOR_PERCENT == 99
\* HARD_LIMIT_GB = 1.0
HARD_LIMIT_GB == 1
UPDATE_INTERVAL_SEC == 300
MIN_RATE_KBPS == 256
CYCLE_START_DAY == 1
USE_UTC_TIME == TRUE
TELEGRAM_ENABLED == FALSE
DAILY_REPORT_HOUR == 8
VNSTAT_FAILURE_LIMIT == 5
SYSFS_FAILURE_LIMIT == 3
MAX_CONSECUTIVE_FAILURES == 10

\* one GiB is two units of 2^29 bytes
UNITS_PER_GB == 1 + 1
TOTAL_QUOTA_UNITS == TOTAL_QUOTA_GB * UNITS_PER_GB

---------------------------------------------------------------------------
(* Bounds of the model *)

\* first instant of the calendar window the cycle calculator is tried on:
\* 2023-12-01 00:00:00 UTC
CycleBase == 1701388800
\* number of days in that window (to 2025-03-31: a leap and a non-leap February)
CycleDays == 487
\* first instant of the control loop's clock: 2023-12-31 20:00:00 UTC
ClockStart == 1704052800
\* distance between the instants at which the loop can wake up: 10 d 6 h 40 min
ClockStep == 888000
\* number of such instants after the first
MaxClock == 3
\* largest value a counter-source failure counter is driven to
MaxSourceFailures == 1
\* number of errors (OSError of tc, of os.makedirs) raised in one run
MaxRaises == 1
\* number of calls of get_current_bytes in a row the reader is tried on
MaxReads == 7

---------------------------------------------------------------------------
(* Calendar arithmetic of datetime / calendar *)

Min(a, b) == IF a <= b THEN a ELSE b
Max(a, b) == IF a >= b THEN a ELSE b

SECONDS_PER_DAY == 24 * 60 * 60

IsLeap(y) == (y % 4 = 0 /\ y % 100 # 0) \/ y % 400 = 0

\* calendar.monthrange(y, m)[1]
DaysInMonth(y, m) ==
    IF m = 2 THEN (IF IsLeap(y) THEN 29 ELSE 28)
    ELSE IF m \in {4, 6, 9, 11} THEN 30 ELSE 31

\* days from 1970-01-01 to the civil date y-m-d (proleptic Gregorian)
DaysFromCivil(y, m, d) ==
    LET yy  == IF m <= 2 THEN y - 1 ELSE y
        era == yy \div 400
        yoe == yy - era * 400
        mp  == IF m > 2 THEN m - 3 ELSE m + 9
        doy == (153 * mp + 2) \div 5 + d - 1
        doe == yoe * 365 + yoe \div 4 - yoe \div 100 + doy
    IN  era * 146097 + doe - 719468

\* the civil date of day number z: [year, month, day]
CivilFromDays(z) ==
    LET zz  == z + 719468
        era == zz \div 146097
        doe == zz - era * 146097
        yoe == (doe - doe \div 1460 + doe \div 36524 - doe \div 146096) \div 365
        doy == doe - (365 * yoe + yoe \div 4 - yoe \div 100)
        mp  == (5 * doy + 2) \div 153
        d   == doy - (153 * mp + 2) \div 5 + 1
        m   == IF mp < 10 THEN mp + 3 ELSE mp - 9
        y   == yoe + era * 400 + (IF m <= 2 THEN 1 ELSE 0)
    IN  [year |-> y, month |-> m, day |-> d]

\* datetime(y, m, d) raises ValueError exactly when the day is not in the month
ValidDate(y, m, d) == d >= 1 /\ d <= DaysInMonth(y, m)

\* datetime(y, m, d) as naive seconds (midnight of that date)
NaiveMidnight(y, m, d) == DaysFromCivil(y, m, d) * SECONDS_PER_DAY

\* datetime.utcnow() / datetime.now(): the naive wall time read at clock c
NaiveNow(c, offset) == IF USE_UTC_TIME THEN c ELSE c + offset

\* naive_datetime.timestamp(): a naive datetime is taken to be local time
Timestamp(naive, offset) == naive - offset

---------------------------------------------------------------------------
(* get_cycle_timestamps *)

\* start_day = max(1, min(31, CYCLE_START_DAY))
ClampStartDay(day) == Max(1, Min(31, day))

\* DateOrLastDay with the fallback day fixed at 28
DateOrDay28(y, m, day) ==
    IF ValidDate(y, m, day) THEN [year |-> y, month |-> m, day |-> day]
    ELSE [year |-> y, month |-> m, day |-> 28]

\* try datetime(y, m, day) except ValueError: the last day of that month
DateOrLastDay(y, m, day) ==
    IF ValidDate(y, m, day) THEN [year |-> y, month |-> m, day |-> day]
    ELSE [year |-> y, month |-> m, day |-> DaysInMonth(y, m)]

\* the start date of the cycle around the naive time `naive`
StartDate(naive, day) ==
    LET n  == CivilFromDays(naive \div SECONDS_PER_DAY)
        sd == ClampStartDay(day)
        pm == IF n.month - 1 = 0 THEN 12 ELSE n.month - 1
        py == IF n.month - 1 = 0 THEN n.year - 1 ELSE n.year
    IN  IF n.day >= sd
        THEN DateOrLastDay(n.year, n.month, sd)
        ELSE DateOrLastDay(py, pm, sd)

\* next_start: start_date + 32 days, then replace(day=start_day), or the last
\* day of the month that start_date + 32 days falls in
NextStart(start, day) ==
    LET sd == ClampStartDay(day)
        p  == CivilFromDays(DaysFromCivil(start.year, start.month, start.day) + 32)
    IN  DateOrLastDay(p.year, p.month, sd)

get_cycle_timestamps(c, day, offset) ==
    LET start == StartDate(NaiveNow(c, offset), day)
        next  == NextStart(start, day)
        end   == NaiveMidnight(next.year, next.month, next.day) - 1
    IN  [start |-> Timestamp(NaiveMidnight(start.year, start.month, start.day), offset),
         end   |-> Timestamp(end, offset)]

---------------------------------------------------------------------------
(* Whole numbers beyond 2^31: sequences of base-100 digits, most           *)
(* significant first, no leading zero; <<>> is zero                        *)

RECURSIVE BigFromNat(_)
BigFromNat(n) == IF n = 0 THEN <<>> ELSE Append(BigFromNat(n \div 100), n % 100)

RECURSIVE BigMulCarry(_, _, _)
BigMulCarry(x, k, carry) ==
    IF x = <<>> THEN BigFromNat(carry)
    ELSE LET v == x[Len(x)] * k + carry
         IN  Append(BigMulCarry(SubSeq(x, 1, Len(x) - 1), k, v \div 100), v % 100)

\* x * k, for 0 <= k < 2^24
BigMul(x, k) == BigMulCarry(x, k, 0)

RECURSIVE BigStrip(_)
BigStrip(x) == IF x # <<>> /\ x[1] = 0 THEN BigStrip(Tail(x)) ELSE x

RECURSIVE BigDivRem(_, _)
BigDivRem(x, k) ==
    IF x = <<>> THEN [q |-> <<>>, r |-> 0]
    ELSE LET p == BigDivRem(SubSeq(x, 1, Len(x) - 1), k)
             v == p.r * 100 + x[Len(x)]
         IN  [q |-> Append(p.q, v \div k), r |-> v % k]

\* floor(x / k), for 0 < k < 2^24
BigDiv(x, k) == BigStrip(BigDivRem(x, k).q)

RECURSIVE BigLexLeq(_, _)
BigLexLeq(x, y) ==
    IF x = <<>> THEN TRUE
    ELSE IF x[1] # y[1] THEN x[1] < y[1]
    ELSE BigLexLeq(Tail(x), Tail(y))

BigLeq(x, y) ==
    IF Len(x) # Len(y) THEN Len(x) < Len(y) ELSE BigLexLeq(x, y)

BigMax(x, y) == IF BigLeq(x, y) THEN y ELSE x

---------------------------------------------------------------------------
(* The rate formula of the limiting branch of main() *)

\* used_percent >= THRESHOLD_PERCENT, with used_percent = total_gb_used / quota * 100
AtOrOverThreshold(total) == total * 100 >= THRESHOLD_PERCENT * TOTAL_QUOTA_UNITS

\* remaining_gb = TOTAL_QUOTA_GB - total_gb_used, in units (may be negative)
RemainingUnits(total) == TOTAL_QUOTA_UNITS - total

\* remaining_gb <= HARD_LIMIT_GB
AtOrUnderHardLimit(total) == RemainingUnits(total) <= HARD_LIMIT_GB * UNITS_PER_GB

\* time_remaining_sec = max(1, cycle["end"] - current_time)
TimeRemaining(cyc, now) == Max(1, cyc.end - now)

\* SafeRemainingUnits computed from the used quota instead of the remaining quota
SafeUsedUnits(total) ==
    Max(0, total - (TOTAL_QUOTA_UNITS * BUFFER_PERCENT) \div 100)

\* safe_remaining_gb = max(0, remaining_gb - TOTAL_QUOTA_GB * BUFFER_PERCENT / 100)
SafeRemainingUnits(total) ==
    Max(0, RemainingUnits(total) - (TOTAL_QUOTA_UNITS * BUFFER_PERCENT) \div 100)

\* target_rate_bps / 1000 = safe_remaining_bytes * 8 * SAFETY_FACTOR / time / 1000,
\* with safe_remaining_bytes = units * 2^29: units * 99 * 2^32 / 100 / 1000 / time
RawRateKbps(total, seconds) ==
    BigDiv(BigDiv(BigMul(BigMul(BigFromNat(SafeRemainingUnits(total) * SAFETY_FACTOR_PERCENT),
                                65536), 65536),
                  100 * 1000), seconds)

\* TargetRateKbps without the max(MIN_RATE_KBPS, ...)
RateWithoutFloor(total, seconds) == RawRateKbps(total, seconds)

\* target_rate_kbps = max(MIN_RATE_KBPS, target_rate_bps / 1000)
TargetRateKbps(total, seconds) ==
    BigMax(BigFromNat(MIN_RATE_KBPS), RawRateKbps(total, seconds))

---------------------------------------------------------------------------
(* Interfaces, and the counter reads of get_current_bytes *)

\* the interfaces the host can show; eth0 is the one start-up detects
Ifaces == {"eth0", "eth1"}
MainInterface == "eth0"

Range(s) == {s[i] : i \in 1 .. Len(s)}

\* lists of distinct interfaces, as get_all_interfaces() can return them
IfaceLists ==
    UNION {{s \in [1 .. n -> Ifaces] : \A i, j \in 1 .. n : i # j => s[i] # s[j]} :
           n \in 0 .. Cardinality(Ifaces)}

\* byte counts a counter source can report, in units of 2^29 bytes
Readings == {0, 1799, 1800, 1997, 1998}

\* what one call of get_current_bytes meets: vnstat answers, or vnstat fails (or is
\* not installed) and sysfs answers, or both fail
ReadOutcomes ==
    {[src |-> "vnstat", bytes |-> b] : b \in Readings}
        \cup {[src |-> "sysfs", bytes |-> b] : b \in Readings}
        \cup {[src |-> "none", bytes |-> 0]}

\* get_current_bytes that does not count a vnstat failure when sysfs answers
ReadForgetsPrimaryFailure(st, o) ==
    IF o.src = "vnstat"
    THEN [state |-> [st EXCEPT !.vnstat_failures = 0], bytes |-> o.bytes]
    ELSE IF o.src = "sysfs"
    THEN [state |-> [st EXCEPT !.sysfs_failures = 0], bytes |-> o.bytes]
    ELSE [state |-> [st EXCEPT !.vnstat_failures = @ + 1, !.sysfs_failures = @ + 1],
          bytes |-> 0]

\* get_current_bytes that does not count a sysfs failure
ReadForgetsFallbackFailure(st, o) ==
    IF o.src = "vnstat"
    THEN [state |-> [st EXCEPT !.vnstat_failures = 0], bytes |-> o.bytes]
    ELSE IF o.src = "sysfs"
    THEN [state |-> [st EXCEPT !.vnstat_failures = @ + 1, !.sysfs_failures = 0],
          bytes |-> o.bytes]
    ELSE [state |-> [st EXCEPT !.vnstat_failures = @ + 1], bytes |-> 0]

\* get_current_bytes(interface, state): the state it leaves and the bytes it returns
get_current_bytes(st, o) ==
    IF o.src = "vnstat"
    THEN [state |-> [st EXCEPT !.vnstat_failures = 0], bytes |-> o.bytes]
    ELSE IF o.src = "sysfs"
    THEN [state |-> [st EXCEPT !.vnstat_failures = @ + 1, !.sysfs_failures = 0],
          bytes |-> o.bytes]
    ELSE [state |-> [st EXCEPT !.vnstat_failures = @ + 1, !.sysfs_failures = @ + 1],
          bytes |-> 0]

\* no call of get_current_bytes yet
NoRead == [src |-> "unread", offered |-> 0, returned |-> 0, run |-> 0, failed |-> 0]

\* what a call of get_current_bytes met and did: the source that answered, the
\* value it offered, the value returned, the number of calls in a row, this one
\* included, in which vnstat failed and sysfs answered, and the number of calls in
\* a row, this one included, in which both failed
ReadLog(st, o, prev) ==
    [src |-> o.src, offered |-> o.bytes, returned |-> get_current_bytes(st, o).bytes,
     run |-> IF o.src = "sysfs" THEN prev.run + 1 ELSE 0,
     failed |-> IF o.src = "none" THEN prev.failed + 1 ELSE 0]

\* the keys get_current_bytes assigns: vnstat_failures always, sysfs_failures when
\* vnstat did not answer
KeysWritten(o) ==
    IF o.src = "vnstat" THEN {"vnstat_failures"}
    ELSE {"vnstat_failures", "sysfs_failures"}

\* the reads the model lets happen: the failure counters stay within the bound
ReadAllowed(st, o) ==
    LET r == get_current_bytes(st, o).state
    IN  r.vnstat_failures <= MaxSourceFailures /\ r.sysfs_failures <= MaxSourceFailures

---------------------------------------------------------------------------
(* The state dict *)

\* default_state of load_state(), with the interface list main() gives it
DefaultState(ifaces) ==
    [version |-> 1, cycle_start_ts |-> 0, is_limiting |-> FALSE, is_blocked |-> FALSE,
     last_rate_kbps |-> <<>>, last_daily_report |-> 0, last_event_notification |-> 0,
     last_status_notification |-> 0, last_failure_notification |-> 0,
     detected_interfaces |-> ifaces, vnstat_failures |-> 0, sysfs_failures |-> 0]

\* FreshState built from default_state, dropping the notification timestamps
FreshFromDefault(st, cyc) ==
    [DefaultState(st.detected_interfaces) EXCEPT
        !.version = st.version, !.cycle_start_ts = cyc.start]

\* FreshState that carries is_blocked and is_limiting over
FreshKeepsFlags(st, cyc) ==
    [version |-> st.version, cycle_start_ts |-> cyc.start,
     is_limiting |-> st.is_limiting, is_blocked |-> st.is_blocked,
     last_rate_kbps |-> <<>>,
     last_daily_report |-> st.last_daily_report,
     last_event_notification |-> st.last_event_notification,
     last_status_notification |-> st.last_status_notification,
     last_failure_notification |-> st.last_failure_notification,
     detected_interfaces |-> st.detected_interfaces,
     vnstat_failures |-> 0, sysfs_failures |-> 0]

\* FreshState that counts the resets in the version field
FreshBumpsVersion(st, cyc) ==
    [version |-> st.version + 1, cycle_start_ts |-> cyc.start,
     is_limiting |-> FALSE, is_blocked |-> FALSE, last_rate_kbps |-> <<>>,
     last_daily_report |-> st.last_daily_report,
     last_event_notification |-> st.last_event_notification,
     last_status_notification |-> st.last_status_notification,
     last_failure_notification |-> st.last_failure_notification,
     detected_interfaces |-> st.detected_interfaces,
     vnstat_failures |-> 0, sysfs_failures |-> 0]

\* the record the rollover branch of main() builds
FreshState(st, cyc) ==
    [version |-> st.version, cycle_start_ts |-> cyc.start,
     is_limiting |-> FALSE, is_blocked |-> FALSE, last_rate_kbps |-> <<>>,
     last_daily_report |-> st.last_daily_report,
     last_event_notification |-> st.last_event_notification,
     last_status_notification |-> st.last_status_notification,
     last_failure_notification |-> st.last_failure_notification,
     detected_interfaces |-> st.detected_interfaces,
     vnstat_failures |-> 0, sysfs_failures |-> 0]

ControlState(st) ==
    IF st.is_blocked THEN "BLOCKED" ELSE IF st.is_limiting THEN "LIMITING" ELSE "NORMAL"

\* send_telegram(message): FALSE unless Telegram is configured
send_telegram == TELEGRAM_ENABLED

\* should_send_daily_report(state), at clock c
should_send_daily_report(st, c, offset) ==
    LET hour == (NaiveNow(c, offset) % SECONDS_PER_DAY) \div 3600
        late == c - st.last_daily_report > 23 * 3600
    IN  IF hour = DAILY_REPORT_HOUR THEN late
        ELSE late /\ hour >= DAILY_REPORT_HOUR

---------------------------------------------------------------------------
(* Enforcement calls.  A call is <<kind, interface>>, with the rate as a    *)
(* third component for update_tc_limit.  block_network and                 *)
(* unblock_network catch every exception; update_tc_limit and              *)
(* disable_tc_limit catch only CalledProcessError, which check=False never *)
(* raises, so an OSError of subprocess.run (tc cannot be run) escapes.     *)

\* the calls of the first n steps of a list of calls
Issued(list, n) == {list[i] : i \in 1 .. n}

\* the interfaces of a list that have tc_initialized.get(interface, False)
RECURSIVE TcCalls(_, _, _)
TcCalls(kind, ifaces, tc) ==
    IF ifaces = <<>> THEN <<>>
    ELSE (IF tc[Head(ifaces)] THEN <<(<<kind, Head(ifaces)>>)>> ELSE <<>>)
             \o TcCalls(kind, Tail(ifaces), tc)

\* UpdateCalls that calls update_tc_limit for every interface of the list
UpdateCallsEveryInterface(ifaces, tc, rate) ==
    [i \in 1 .. Len(ifaces) |-> <<"update", ifaces[i], rate>>]

\* the update_tc_limit(interface, rate) calls of a list of interfaces, in order: a
\* call is <<"update", interface, rate>>
RECURSIVE UpdateCalls(_, _, _)
UpdateCalls(ifaces, tc, rate) ==
    IF ifaces = <<>> THEN <<>>
    ELSE (IF tc[Head(ifaces)] THEN <<(<<"update", Head(ifaces), rate>>)>> ELSE <<>>)
             \o UpdateCalls(Tail(ifaces), tc, rate)

\* the calls of the rollover loop, in order: per interface, unblock_network if
\* is_blocked, then disable_tc_limit if is_limiting and tc is initialised
RECURSIVE RolloverCalls(_, _, _)
RolloverCalls(st, ifaces, tc) ==
    IF ifaces = <<>> THEN <<>>
    ELSE (IF st.is_blocked THEN <<(<<"unblock", Head(ifaces)>>)>> ELSE <<>>)
             \o (IF st.is_limiting /\ tc[Head(ifaces)]
                 THEN <<(<<"disable", Head(ifaces)>>)>> ELSE <<>>)
             \o RolloverCalls(st, Tail(ifaces), tc)

\* the calls among which an OSError can escape
CanRaise(call) == call[1] \in {"update", "disable"}

\* positions of a list of calls at which the tick can be aborted; 0 is "nowhere"
RaisePoints(list, left) ==
    {0} \cup {i \in 1 .. Len(list) : left > 0 /\ CanRaise(list[i])}

---------------------------------------------------------------------------
(* main(): the state after start-up (load_state, interface and tc set-up)  *)

\* the host's time zone: UTC or UTC+8
TzOffsets == {0, 28800}

NoCycle == [start |-> 0, end |-> 0]
\* the control fields of a state dict: the two flags and the cycle stamp
ControlFields(st) ==
    [is_blocked |-> st.is_blocked, is_limiting |-> st.is_limiting,
     cycle_start_ts |-> st.cycle_start_ts]

NoEntry == [is_blocked |-> FALSE, is_limiting |-> FALSE, cycle_start_ts |-> 0]

\* the instants at which the loop can wake up after a normal sleep
MainInstants == {ClockStart + k * ClockStep : k \in 0 .. MaxClock}

\* a state.json written by an earlier run in the current cycle
SavedState(ifaces, blocked, limiting, stamped, cyc) ==
    [DefaultState(ifaces) EXCEPT
        !.cycle_start_ts = cyc.start,
        !.is_blocked = blocked,
        !.is_limiting = limiting,
        !.last_rate_kbps = IF limiting THEN BigFromNat(MIN_RATE_KBPS) ELSE <<>>,
        !.last_daily_report = IF stamped THEN ClockStart - 3600 ELSE 0,
        !.last_event_notification = IF stamped THEN ClockStart - 7200 ELSE 0,
        !.last_status_notification = IF stamped THEN ClockStart - 10800 ELSE 0,
        !.last_failure_notification = IF stamped THEN ClockStart - 14400 ELSE 0]

\* the interfaces an earlier run called block_network for: a state saved with
\* is_blocked was saved after the block calls for the interfaces tracked then
BlockedBefore(st) == IF st.is_blocked THEN Range(st.detected_interfaces) ELSE {}

\* no rollover reset yet
NoResets == [cycle |-> NoCycle, count |-> 0]

\* the resets record after a rollover reset for the cycle cyc
CountReset(r, cyc) ==
    IF r.cycle = cyc THEN [r EXCEPT !.count = @ + 1] ELSE [cycle |-> cyc, count |-> 1]

\* between two ticks nothing of the last tick's locals is kept
IdleLocals ==
    /\ cycle = NoCycle
    /\ current_time = 0
    /\ time_remaining_sec = 1
    /\ idx = 0
    /\ total_units = 0
    /\ target_rate_kbps = <<>>
    /\ calls = {}
    /\ rolled = FALSE
    /\ entry = NoEntry
    /\ last_read = NoRead
    /\ raised = "none"

\* the locals are dropped when the tick is over
ResetLocals ==
    /\ cycle' = NoCycle
    /\ current_time' = 0
    /\ time_remaining_sec' = 1
    /\ idx' = 0
    /\ total_units' = 0
    /\ target_rate_kbps' = <<>>
    /\ calls' = {}
    /\ rolled' = FALSE
    /\ entry' = NoEntry
    /\ last_read' = NoRead
    /\ raised' = "none"

Init ==
    /\ clock = ClockStart
    /\ tz \in TzOffsets
    /\ startDay = CYCLE_START_DAY
    /\ pc = "tick"
    /\ state \in {DefaultState(<<MainInterface>>)} \cup
                  {SavedState(<<MainInterface>>, b, l, TRUE,
                              get_cycle_timestamps(clock, startDay, tz)) :
                       b \in BOOLEAN, l \in BOOLEAN}
    /\ \E tcFound \in BOOLEAN :
           tc_initialized = [i \in Ifaces |-> tcFound /\ i \in Range(state.detected_interfaces)]
    /\ consecutive_failures = 0
    /\ IdleLocals
    /\ budget = MaxRaises
    /\ failed_ticks = 0
    /\ missing = {}
    /\ resets = NoResets
    /\ block_issued = BlockedBefore(state)

---------------------------------------------------------------------------
(* main(): one iteration of the while loop, step by step *)

\* where the loop goes after the rollover check: the daily report reads or the
\* core sampling
AfterRollover(st) ==
    IF should_send_daily_report(st, clock, tz) THEN "report" ELSE "sample"

\* lines 589-610: detect new interfaces, compute the cycle, read the time
TickStart ==
    /\ pc = "tick"
    /\ \E host \in IfaceLists :
         LET IsNew(i) == i \notin Range(state.detected_interfaces)
             new == SelectSeq(host, IsNew)
         IN  \E tcFound \in (IF new = <<>> THEN {TRUE} ELSE BOOLEAN) :
               /\ state' = [state EXCEPT !.detected_interfaces = @ \o new]
               /\ tc_initialized' =
                      [i \in Ifaces |-> IF i \in Range(new) THEN tcFound
                                        ELSE tc_initialized[i]]
    /\ cycle' = get_cycle_timestamps(clock, startDay, tz)
    /\ current_time' = clock
    /\ time_remaining_sec' = TimeRemaining(cycle', clock)
    /\ idx' = 1
    /\ total_units' = 0
    /\ target_rate_kbps' = <<>>
    /\ calls' = {}
    /\ rolled' = FALSE
    /\ entry' = ControlFields(state)
    /\ pc' = "rollover"
    /\ UNCHANGED <<clock, tz, startDay, consecutive_failures, budget, last_read, raised,
                   failed_ticks, missing, resets, block_issued>>

\* the trigger of the rollover branch
RolloverTrigger(st, cyc, now) == now > cyc.end \/ st.cycle_start_ts # cyc.start

\* line 613: state["cycle_start_ts"] is read unless current_time > cycle["end"]
KeyErrorAtTrigger(miss, cyc, now) == now <= cyc.end /\ "cycle_start_ts" \in miss

\* lines 617-620: state["is_blocked"], then state["is_limiting"], are read for the
\* first interface
KeyErrorInReset(miss) == "is_blocked" \in miss \/ "is_limiting" \in miss

\* the calls issued before the KeyError of lines 617-620
CallsBeforeKeyError(st, miss) ==
    IF "is_blocked" \notin miss /\ st.is_blocked
    THEN {<<"unblock", st.detected_interfaces[1]>>} ELSE {}

\* lines 612-643: the rollover branch
Rollover ==
    /\ pc = "rollover"
    /\ IF KeyErrorAtTrigger(missing, cycle, current_time)
       THEN /\ pc' = "except"
            /\ raised' = "KeyError"
            /\ UNCHANGED <<state, calls, rolled, budget, missing, resets, block_issued>>
       ELSE IF RolloverTrigger(state, cycle, current_time)
       THEN IF KeyErrorInReset(missing)
            THEN /\ pc' = "except"
                 /\ raised' = "KeyError"
                 /\ calls' = calls \cup CallsBeforeKeyError(state, missing)
                 /\ UNCHANGED <<state, rolled, budget, missing, resets, block_issued>>
            ELSE LET list == RolloverCalls(state, state.detected_interfaces, tc_initialized)
                 IN  \E at \in RaisePoints(list, budget) :
                       /\ budget' = IF at = 0 THEN budget ELSE budget - 1
                       /\ IF at = 0
                          THEN /\ calls' = calls \cup Issued(list, Len(list))
                               /\ state' = FreshState(state, cycle)
                               /\ rolled' = TRUE
                               /\ missing' = {}
                               /\ resets' = CountReset(resets, cycle)
                               /\ block_issued' = {}
                               /\ pc' = AfterRollover(state')
                               /\ raised' = raised
                          ELSE /\ calls' = calls \cup Issued(list, at)
                               /\ pc' = "except"
                               /\ raised' = list[at][1]
                               /\ UNCHANGED <<state, rolled, missing, resets,
                                              block_issued>>
       ELSE /\ pc' = AfterRollover(state)
            /\ UNCHANGED <<state, calls, rolled, budget, raised, missing, resets,
                           block_issued>>
    /\ UNCHANGED <<clock, tz, startDay, tc_initialized, consecutive_failures, cycle,
                   current_time, time_remaining_sec, idx, total_units, target_rate_kbps,
                   entry, last_read, failed_ticks>>

\* lines 645-666: the daily report reads every interface once; nothing is kept of
\* the bytes; last_daily_report is set when send_telegram accepts the report
DailyReport ==
    /\ pc = "report"
    /\ \E o \in {r \in ReadOutcomes : r.bytes = 0} :
         /\ ReadAllowed(state, o)
         /\ LET st == get_current_bytes(state, o).state
                last == idx = Len(state.detected_interfaces)
            IN  state' = IF last /\ send_telegram
                         THEN [st EXCEPT !.last_daily_report = clock] ELSE st
         /\ last_read' = ReadLog(state, o, last_read)
         /\ missing' = missing \ KeysWritten(o)
    /\ IF idx = Len(state.detected_interfaces)
       THEN idx' = 1 /\ pc' = "sample"
       ELSE idx' = idx + 1 /\ pc' = pc
    /\ UNCHANGED <<clock, tz, startDay, tc_initialized, consecutive_failures, cycle,
                   current_time, time_remaining_sec, total_units, target_rate_kbps,
                   calls, rolled, entry, budget, raised, failed_ticks, resets,
                   block_issued>>

\* lines 668-682: read every interface and sum the bytes
Sample ==
    /\ pc = "sample"
    /\ \E o \in ReadOutcomes :
         /\ ReadAllowed(state, o)
         /\ LET r == get_current_bytes(state, o)
            IN  /\ state' = r.state
                /\ total_units' = total_units + r.bytes
         /\ last_read' = ReadLog(state, o, last_read)
         /\ missing' = missing \ KeysWritten(o)
    /\ idx' = idx + 1
    /\ pc' = IF idx = Len(state.detected_interfaces) THEN "block" ELSE pc
    /\ UNCHANGED <<clock, tz, startDay, tc_initialized, consecutive_failures, cycle,
                   current_time, time_remaining_sec, target_rate_kbps, calls, rolled,
                   entry, budget, raised, failed_ticks, resets, block_issued>>

\* BlockCalls that blocks the first interface only
BlockCallsFirstOnly(ifaces) == {<<"block", ifaces[1]>>}

\* the calls of the circuit-breaker: block_network for every interface
BlockCalls(ifaces) == {<<"block", ifaces[i]>> : i \in 1 .. Len(ifaces)}

\* BlockedAfterCheck that follows the usage of the tick
BlockedFollowsUsage(st, total) == AtOrUnderHardLimit(total)

\* is_blocked after the circuit-breaker check
BlockedAfterCheck(st, total) == st.is_blocked \/ AtOrUnderHardLimit(total)

\* is_limiting after line 703-704
LimitingAfterDecision(st, total) == st.is_limiting \/ AtOrOverThreshold(total)

\* LimitingAtEnd that never releases the limit
LimitingSticky(st, total) == st.is_limiting \/ AtOrOverThreshold(total)

\* is_limiting at the end of the limiting branch (lines 731-735)
LimitingAtEnd(st, total) == LimitingAfterDecision(st, total) /\ AtOrOverThreshold(total)

\* the tc calls of lines 710-744, in order; rate is the tick's target_rate_kbps
LimitCalls(st, total, tc, rate) ==
    IF LimitingAfterDecision(st, total)
    THEN UpdateCalls(st.detected_interfaces, tc, rate)
             \o (IF AtOrOverThreshold(total) THEN <<>>
                 ELSE TcCalls("disable", st.detected_interfaces, tc))
    ELSE TcCalls("disable", st.detected_interfaces, tc)

\* save_state(state), lines 697 and 748: os.makedirs is outside the try, so its
\* error escapes; an error of open/json.dump is logged
SaveOutcomes(left) ==
    {"written", "write_failed"} \cup (IF left > 0 THEN {"makedirs_raised"} ELSE {})

\* lines 684-697: the circuit-breaker check; when blocked, the state is saved and
\* the rest of the tick is skipped
BlockCheck ==
    /\ pc = "block"
    /\ IF "is_blocked" \in missing
       THEN /\ pc' = "except"
            /\ raised' = "KeyError"
            /\ UNCHANGED <<state, calls, budget, block_issued>>
       ELSE /\ state' = [state EXCEPT !.is_blocked = BlockedAfterCheck(state, total_units)]
            /\ calls' = IF ~state.is_blocked /\ state'.is_blocked
                        THEN calls \cup BlockCalls(state.detected_interfaces) ELSE calls
            /\ block_issued' = block_issued \cup {c[2] : c \in calls' \ calls}
            /\ IF state'.is_blocked
               THEN \E outcome \in SaveOutcomes(budget) :
                      /\ pc' = IF outcome = "makedirs_raised" THEN "except" ELSE "sleep"
                      /\ budget' = IF outcome = "makedirs_raised" THEN budget - 1 ELSE budget
                      /\ raised' = IF outcome = "makedirs_raised" THEN "save_state"
                                   ELSE raised
               ELSE pc' = "limit" /\ budget' = budget /\ raised' = raised
    /\ UNCHANGED <<clock, tz, startDay, tc_initialized, consecutive_failures, cycle,
                   current_time, time_remaining_sec, idx, total_units, target_rate_kbps,
                   rolled, entry, last_read, failed_ticks, missing, resets>>

\* lines 702-748: the limiting decision, the rate, the tc calls, and save_state
Limit ==
    /\ pc = "limit"
    /\ IF "is_limiting" \in missing
       THEN /\ pc' = "except"
            /\ raised' = "KeyError"
            /\ UNCHANGED <<state, calls, budget, target_rate_kbps>>
       ELSE
       LET lim  == LimitingAfterDecision(state, total_units)
           rate == TargetRateKbps(total_units, time_remaining_sec)
           list == LimitCalls(state, total_units, tc_initialized, rate)
           \* the number of update_tc_limit calls that returned
           Updated(n) == Cardinality({i \in 1 .. n : list[i][1] = "update"})
       IN  \E at \in RaisePoints(list, budget) :
             /\ target_rate_kbps' = IF lim THEN rate ELSE <<>>
             /\ IF at = 0
                THEN /\ calls' = calls \cup Issued(list, Len(list))
                     /\ state' = [state EXCEPT
                                     !.is_limiting = LimitingAtEnd(state, total_units),
                                     !.last_rate_kbps =
                                         IF Updated(Len(list)) > 0 THEN rate ELSE @]
                     /\ \E outcome \in SaveOutcomes(budget) :
                          /\ pc' = IF outcome = "makedirs_raised" THEN "except" ELSE "sleep"
                          /\ budget' = IF outcome = "makedirs_raised"
                                       THEN budget - 1 ELSE budget
                          /\ raised' = IF outcome = "makedirs_raised" THEN "save_state"
                                       ELSE raised
                ELSE /\ calls' = calls \cup Issued(list, at)
                     /\ state' = [state EXCEPT
                                     !.is_limiting = lim,
                                     !.last_rate_kbps =
                                         IF Updated(at - 1) > 0 THEN rate ELSE @]
                     /\ budget' = budget - 1
                     /\ raised' = list[at][1]
                     /\ pc' = "except"
    /\ UNCHANGED <<clock, tz, startDay, tc_initialized, consecutive_failures, cycle,
                   current_time, time_remaining_sec, idx, total_units, rolled, entry,
                   last_read, failed_ticks, missing, resets, block_issued>>

\* Sleep that leaves consecutive_failures as it is
SleepKeepsCount ==
    /\ pc = "sleep"
    /\ clock' \in {c \in MainInstants : c >= clock + UPDATE_INTERVAL_SEC}
    /\ failed_ticks' = 0
    /\ pc' = "tick"
    /\ ResetLocals
    /\ UNCHANGED <<tz, startDay, state, tc_initialized, budget, missing, resets,
                   consecutive_failures, block_issued>>

\* lines 698-700 and 749-752: time.sleep(UPDATE_INTERVAL_SEC), then the failure
\* counter is reset
Sleep ==
    /\ pc = "sleep"
    /\ clock' \in {c \in MainInstants : c >= clock + UPDATE_INTERVAL_SEC}
    /\ consecutive_failures' = 0
    /\ failed_ticks' = 0
    /\ pc' = "tick"
    /\ ResetLocals
    /\ UNCHANGED <<tz, startDay, state, tc_initialized, budget, missing, resets,
                   block_issued>>

\* 2 ** n
RECURSIVE Pow2(_)
Pow2(n) == IF n = 0 THEN 1 ELSE 2 * Pow2(n - 1)

\* BackoffSleep that waits the poll interval
BackoffPollInterval(n) == UPDATE_INTERVAL_SEC

\* sleep_time = min(600, 2 ** consecutive_failures)
BackoffSleep(n) == Min(600, Pow2(n))

\* lines 757-775: the handler of an exception that escaped the tick: count it,
\* exit at the limit, otherwise sleep the back-off time
Except ==
    /\ pc = "except"
    /\ consecutive_failures' = consecutive_failures + 1
    /\ failed_ticks' = failed_ticks + 1
    /\ IF consecutive_failures' >= MAX_CONSECUTIVE_FAILURES
       THEN /\ pc' = "exit"
            /\ UNCHANGED <<clock, cycle, current_time, time_remaining_sec, idx,
                           total_units, target_rate_kbps, calls, rolled, entry,
                           last_read, raised>>
       ELSE /\ pc' = "tick"
            /\ clock' = clock + BackoffSleep(consecutive_failures')
            /\ ResetLocals
    /\ UNCHANGED <<tz, startDay, state, tc_initialized, budget, missing, resets,
                   block_issued>>

Next ==
    \/ TickStart
    \/ Rollover
    \/ DailyReport
    \/ Sample
    \/ BlockCheck
    \/ Limit
    \/ Sleep
    \/ Except

Spec == Init /\ [][Next]_vars

---------------------------------------------------------------------------
(* The cycle calculator on its own: every start day 1..31, every day of    *)
(* the window at its first, middle and last second, three host time zones  *)

CycleTzOffsets == {0, 28800, -18000}
SecondsOfDay == {0, 43200, 86399}
CycleInstants ==
    {CycleBase + d * SECONDS_PER_DAY + s : d \in 0 .. (CycleDays - 1), s \in SecondsOfDay}

\* the variables of main() that the calculator and the rate formula do not touch
MainAtRest ==
    /\ state = DefaultState(<<MainInterface>>)
    /\ tc_initialized = [i \in Ifaces |-> FALSE]
    /\ consecutive_failures = 0
    /\ idx = 0
    /\ calls = {}
    /\ rolled = FALSE
    /\ entry = NoEntry
    /\ budget = 0
    /\ last_read = NoRead
    /\ raised = "none"
    /\ failed_ticks = 0
    /\ missing = {}
    /\ resets = NoResets
    /\ block_issued = {}

InitCycle ==
    /\ pc = "cycle_input"
    /\ clock \in CycleInstants
    /\ tz \in CycleTzOffsets
    /\ startDay \in 1 .. 31
    /\ cycle = NoCycle
    /\ current_time = 0
    /\ time_remaining_sec = 1
    /\ total_units = 0
    /\ target_rate_kbps = <<>>
    /\ MainAtRest

\* cycle = get_cycle_timestamps(), current_time = int(time.time())
ComputeCycle ==
    /\ pc = "cycle_input"
    /\ cycle' = get_cycle_timestamps(clock, startDay, tz)
    /\ current_time' = clock
    /\ pc' = "cycle_done"
    /\ UNCHANGED <<clock, tz, startDay, state, tc_initialized, consecutive_failures,
                   time_remaining_sec, idx, total_units, target_rate_kbps, calls,
                   rolled, budget, entry, last_read, raised, failed_ticks, missing,
                   resets, block_issued>>

NextCycle == ComputeCycle

SpecCycle == InitCycle /\ [][NextCycle]_vars

---------------------------------------------------------------------------
(* The rate formula on its own: usage totals from nothing to above the     *)
(* quota, and ends of the cycle from two months ahead to hours in the past *)

RateTotals == {0, 1000, 1700, 1799, 1800, 1810, 1900, 1979, 1980, 1981, 1997, 1998,
               2000, 2200}
RateDistances == {-28800, -1, 0, 1, 2, 60, 3600, 86400, 432000, 2678399, 5270399}

InitRate ==
    /\ pc = "rate_input"
    /\ clock = ClockStart
    /\ tz = 0
    /\ startDay = CYCLE_START_DAY
    /\ current_time = clock
    /\ \E d \in RateDistances : cycle = [start |-> clock - 1, end |-> clock + d]
    /\ time_remaining_sec = 1
    /\ total_units \in RateTotals
    /\ target_rate_kbps = <<>>
    /\ MainAtRest

\* lines 610 and 713-718
ComputeRate ==
    /\ pc = "rate_input"
    /\ time_remaining_sec' = TimeRemaining(cycle, current_time)
    /\ target_rate_kbps' = TargetRateKbps(total_units, time_remaining_sec')
    /\ pc' = "rate_done"
    /\ UNCHANGED <<clock, tz, startDay, state, tc_initialized, consecutive_failures,
                   cycle, current_time, idx, total_units, calls, rolled, budget, entry,
                   last_read, raised, failed_ticks, missing, resets, block_issued>>

NextRate == ComputeRate

SpecRate == InitRate /\ [][NextRate]_vars

---------------------------------------------------------------------------
(* main() from its first line: load_state on a state file that is absent,  *)
(* unreadable as JSON, complete, or a JSON object without some of the      *)
(* keys; then the loop.  A key the dict does not have raises KeyError      *)
(* where the code subscripts it, and reads as the default where the code   *)
(* uses state.get                                                          *)

StateKeys == DOMAIN DefaultState(<<>>)

\* the key sets an older or cut-down state.json lacks: none, keys the code reads
\* with state.get, keys it subscripts, all of them ("{}")
MissingKeySets ==
    {{}, {"vnstat_failures", "sysfs_failures"}, {"last_failure_notification"},
     {"cycle_start_ts"}, {"is_blocked"}, {"is_limiting"}, {"detected_interfaces"},
     StateKeys}

\* the dict json.load returns for an object with the keys of `content` but `miss`:
\* a missing key holds the value state.get(key, default) gives
WithoutKeys(content, miss) ==
    [k \in StateKeys |-> IF k \in miss THEN DefaultState(<<>>)[k] ELSE content[k]]

\* the state files start-up can find
StateFiles(cyc) ==
    {[kind |-> k, content |-> DefaultState(<<>>), missing |-> {}] :
         k \in {"absent", "corrupt"}}
        \cup {[kind |-> "json",
               content |-> SavedState(<<MainInterface>>, b, l, TRUE, cyc),
               missing |-> {}] : b \in BOOLEAN, l \in BOOLEAN}
        \cup {[kind |-> "json",
               content |-> SavedState(<<MainInterface>>, FALSE, FALSE, TRUE, cyc),
               missing |-> m] : m \in MissingKeySets \ {{}}}

\* load_state(): the dict and the keys it lacks
load_state(file) ==
    IF file.kind = "json"
    THEN [state |-> WithoutKeys(file.content, file.missing), missing |-> file.missing]
    ELSE [state |-> DefaultState(<<>>), missing |-> {}]

InitLoad ==
    /\ pc = "start"
    /\ clock = ClockStart
    /\ tz \in TzOffsets
    /\ startDay = CYCLE_START_DAY
    /\ state = DefaultState(<<>>)
    /\ tc_initialized = [i \in Ifaces |-> FALSE]
    /\ consecutive_failures = 0
    /\ IdleLocals
    /\ budget = MaxRaises
    /\ failed_ticks = 0
    /\ missing = {}
    /\ resets = NoResets
    /\ block_issued = {}

\* lines 551-586: load_state, the interface list, tc set-up; the KeyError of
\* state["detected_interfaces"] (line 562) is outside the try of the loop
Startup ==
    /\ pc = "start"
    /\ \E file \in StateFiles(get_cycle_timestamps(clock, startDay, tz)) :
         LET loaded == load_state(file)
         IN  /\ missing' = loaded.missing
             /\ IF "detected_interfaces" \in loaded.missing
                THEN /\ state' = loaded.state
                     /\ pc' = "crashed"
                     /\ raised' = "KeyError"
                     /\ UNCHANGED <<tc_initialized, block_issued>>
                ELSE /\ state' = [loaded.state EXCEPT !.detected_interfaces =
                                      IF @ = <<>> THEN <<MainInterface>> ELSE @]
                     /\ \E tcFound \in BOOLEAN :
                          tc_initialized' =
                              [i \in Ifaces |->
                                  tcFound /\ i \in Range(state'.detected_interfaces)]
                     /\ pc' = "tick"
                     /\ raised' = raised
                     /\ block_issued' = BlockedBefore(state')
    /\ UNCHANGED <<clock, tz, startDay, consecutive_failures, cycle, current_time,
                   time_remaining_sec, idx, total_units, target_rate_kbps, calls,
                   rolled, entry, budget, last_read, failed_ticks, resets>>

NextLoad ==
    \/ Startup
    \/ Next

SpecLoad == InitLoad /\ [][NextLoad]_vars

---------------------------------------------------------------------------
(* The supervisor on its own: the while loop with the body of the try      *)
(* reduced to how it ends, in time.sleep or in the handler; the supervisor *)
(* reads nothing of what the body changes                                  *)

\* what can escape the body of the try
TickErrors == {"update", "disable", "save_state", "KeyError"}

InitSupervisor ==
    /\ pc = "tick"
    /\ clock = ClockStart
    /\ tz = 0
    /\ startDay = CYCLE_START_DAY
    /\ cycle = NoCycle
    /\ current_time = 0
    /\ time_remaining_sec = 1
    /\ total_units = 0
    /\ target_rate_kbps = <<>>
    /\ MainAtRest

\* lines 589-748: the body of the try reaches time.sleep, or an exception escapes
TickBody ==
    /\ pc = "tick"
    /\ \/ pc' = "sleep" /\ raised' = "none"
       \/ pc' = "except" /\ raised' \in TickErrors
    /\ UNCHANGED <<clock, tz, startDay, state, tc_initialized, consecutive_failures,
                   cycle, current_time, time_remaining_sec, idx, total_units,
                   target_rate_kbps, calls, rolled, entry, budget, last_read,
                   failed_ticks, missing, resets, block_issued>>

NextSupervisor ==
    \/ TickBody
    \/ Sleep
    \/ Except

SpecSupervisor == InitSupervisor /\ [][NextSupervisor]_vars

---------------------------------------------------------------------------
(* get_current_bytes on its own: calls in a row on one state dict, each    *)
(* meeting any of the outcomes, from the default failure counters          *)

InitRead ==
    /\ pc = "read_input"
    /\ clock = ClockStart
    /\ tz = 0
    /\ startDay = CYCLE_START_DAY
    /\ cycle = NoCycle
    /\ current_time = 0
    /\ time_remaining_sec = 1
    /\ total_units = 0
    /\ target_rate_kbps = <<>>
    /\ MainAtRest

\* bytes_used = get_current_bytes(interface, state)
ReadStep ==
    /\ pc = "read_input"
    /\ idx < MaxReads
    /\ \E o \in ReadOutcomes :
         /\ state' = get_current_bytes(state, o).state
         /\ last_read' = ReadLog(state, o, last_read)
    /\ idx' = idx + 1
    /\ UNCHANGED <<clock, tz, startDay, pc, tc_initialized, consecutive_failures, cycle,
                   current_time, time_remaining_sec, total_units, target_rate_kbps,
                   calls, rolled, entry, budget, raised, failed_ticks, missing, resets,
                   block_issued>>

NextRead == ReadStep

SpecRead == InitRead /\ [][NextRead]_vars

---------------------------------------------------------------------------
(* Properties of the control loop (Spec) *)

\* a tick has read every interface
Sampled == pc \in {"block", "limit", "sleep", "except"}
               /\ idx > Len(state.detected_interfaces)

\* a tick has run to its end (the state is saved, the loop sleeps)
TickCompleted == pc = "sleep"

\* the steps of a tick between the rollover branch and the circuit-breaker
AfterRolloverBranch == pc \in {"report", "sample"}

\* C1: once is_blocked is true, the only step that makes it false is the step of
\* the rollover branch that replaces the state; no other step of any tick does,
\* whatever the tick reads.
BlockedUntilRollover ==
    [][(state.is_blocked /\ ~state'.is_blocked)
          => (pc = "rollover" /\ RolloverTrigger(state, cycle, current_time) /\ rolled')]_vars

\* C1 witness: a tick that found the state blocked, did no rollover, read zero
\* usage, issued no block call of its own, and ended blocked.
BlockedSurvivesZeroReading ==
    /\ TickCompleted
    /\ entry.is_blocked
    /\ ~rolled
    /\ total_units = 0
    /\ state.is_blocked
    /\ calls = {}

\* C2: a tick that found the state not blocked and read a total with
\* remaining <= hard limit is blocked after the circuit-breaker check, and a
\* block call has been issued in the tick for every tracked interface.
BlockOnHardLimit ==
    (Sampled /\ pc # "block" /\ ~entry.is_blocked /\ AtOrUnderHardLimit(total_units))
        => /\ state.is_blocked
           /\ \A i \in Range(state.detected_interfaces) : <<"block", i>> \in calls

\* C2 witness: a tick that found the state limiting, with two tracked interfaces,
\* read remaining <= hard limit and ended blocked.
BlockedFromLimiting ==
    /\ TickCompleted
    /\ ~entry.is_blocked /\ entry.is_limiting
    /\ ~rolled
    /\ Len(state.detected_interfaces) = 2
    /\ AtOrUnderHardLimit(total_units)
    /\ state.is_blocked

\* C3: at the end of a completed tick that is not blocked, is_limiting is true
\* exactly when the tick's used_percent >= THRESHOLD_PERCENT.
LimitingIffOverThreshold ==
    (TickCompleted /\ ~state.is_blocked)
        => (state.is_limiting <=> AtOrOverThreshold(total_units))

\* C3 witness: a tick that found the state limiting, did no rollover, read a total
\* under the threshold and ended NORMAL.
LimitingBackToNormal ==
    /\ TickCompleted
    /\ entry.is_limiting /\ ~entry.is_blocked
    /\ ~rolled
    /\ total_units > 0
    /\ ~AtOrOverThreshold(total_units)
    /\ ControlState(state) = "NORMAL"

\* C9: the step of the rollover branch, when the trigger holds and no error
\* escapes it, leaves is_limiting and is_blocked false, last rate 0, both failure
\* counters 0, cycle_start_ts the computed start, and the four notification
\* timestamps and the interface list as they were.
RolloverResetFrame ==
    [][(pc = "rollover" /\ RolloverTrigger(state, cycle, current_time) /\ pc' # "except")
          => /\ rolled'
             /\ ~state'.is_limiting /\ ~state'.is_blocked
             /\ state'.last_rate_kbps = <<>>
             /\ state'.vnstat_failures = 0 /\ state'.sysfs_failures = 0
             /\ state'.cycle_start_ts = cycle.start
             /\ state'.last_daily_report = state.last_daily_report
             /\ state'.last_event_notification = state.last_event_notification
             /\ state'.last_status_notification = state.last_status_notification
             /\ state'.last_failure_notification = state.last_failure_notification
             /\ state'.detected_interfaces = state.detected_interfaces]_vars

\* C9 witness: right after a rollover that found the state blocked and limiting,
\* with two tracked interfaces and non-zero notification timestamps.
RolloverFromBlocked ==
    /\ AfterRolloverBranch /\ idx = 1
    /\ rolled
    /\ entry.is_blocked /\ entry.is_limiting
    /\ Len(state.detected_interfaces) = 2
    /\ state.last_daily_report # 0 /\ state.last_event_notification # 0
    /\ state.last_status_notification # 0 /\ state.last_failure_notification # 0
    /\ state.cycle_start_ts = cycle.start
    /\ ~state.is_blocked /\ ~state.is_limiting

\* C10: a completed tick that did a rollover has issued an unblock call and a
\* rate-removal call for every tracked interface.
RolloverCallsEveryInterface ==
    (TickCompleted /\ rolled)
        => \A i \in Range(state.detected_interfaces) :
               <<"unblock", i>> \in calls /\ <<"disable", i>> \in calls

\* C21: an enforcement action is issued again on every tick while the controlling
\* state stays the same: a completed tick that found the state LIMITING and left
\* it LIMITING has issued the rate-apply call for every tracked interface with a
\* tc handle, and a completed tick that found the state BLOCKED and left it
\* BLOCKED has issued the block call for every tracked interface.
EnforcementReissuedEveryTick ==
    (TickCompleted /\ ~rolled)
        => /\ (entry.is_limiting /\ ~entry.is_blocked /\ ControlState(state) = "LIMITING")
                  => \A i \in Range(state.detected_interfaces) :
                         tc_initialized[i] => <<"update", i, target_rate_kbps>> \in calls
           /\ (entry.is_blocked /\ ControlState(state) = "BLOCKED")
                  => \A i \in Range(state.detected_interfaces) : <<"block", i>> \in calls

\* is_limiting after the threshold decision of lines 703-704, in a tick that has
\* reached it: what the tick found (nothing, after a rollover reset) or the
\* threshold crossed by the tick's reading
LimitingDecided ==
    (~rolled /\ entry.is_limiting) \/ AtOrOverThreshold(total_units)

\* C22: in every completed tick that is limiting after the threshold decision, the
\* rate is the formula on the tick's own usage and time remaining,
\* max(floor, max(0, remaining - quota * buffer%) * 8 * safety / time / 1000) with
\* time = max(1, cycle end - now), and the rate-apply calls of the tick are exactly
\* one call with that rate for every tracked interface with a tc handle.
RateAppliedToWorkingHandles ==
    (TickCompleted /\ ~state.is_blocked /\ LimitingDecided)
        => LET safe == Max(0, (TOTAL_QUOTA_UNITS - total_units)
                                  - (TOTAL_QUOTA_UNITS * BUFFER_PERCENT) \div 100)
               time == Max(1, cycle.end - current_time)
               \* safe * 2^29 bytes * 8 * 99 / 100 / 1000 / time
               raw  == BigDiv(BigDiv(BigMul(BigMul(BigFromNat(safe * SAFETY_FACTOR_PERCENT),
                                                   65536), 65536), 100 * 1000), time)
               rate == IF BigLeq(raw, BigFromNat(MIN_RATE_KBPS))
                       THEN BigFromNat(MIN_RATE_KBPS) ELSE raw
           IN  /\ time_remaining_sec = time
               /\ target_rate_kbps = rate
               /\ {c \in calls : c[1] = "update"}
                      = {<<"update", i, rate>> :
                             i \in {j \in Range(state.detected_interfaces) : tc_initialized[j]}}

\* C22 witness: a completed tick that crossed the threshold with two tracked
\* interfaces, one with a tc handle and one without: the rate is above the floor,
\* it was applied to the first and nothing was applied to the second.
RateAppliedToOneOfTwo ==
    /\ TickCompleted
    /\ ~entry.is_limiting /\ state.is_limiting /\ ~state.is_blocked
    /\ state.detected_interfaces = <<"eth0", "eth1">>
    /\ tc_initialized["eth0"] /\ ~tc_initialized["eth1"]
    /\ ~BigLeq(target_rate_kbps, BigFromNat(MIN_RATE_KBPS))
    /\ {c \in calls : c[1] = "update"} = {<<"update", "eth0", target_rate_kbps>>}
    /\ state.last_rate_kbps = target_rate_kbps

\* C23: whenever a completed tick ends BLOCKED, block_network has been called since
\* the last reset for every interface tracked at that moment, those detected after
\* the transition to BLOCKED included.
BlockedMeansEveryInterfaceBlocked ==
    (TickCompleted /\ state.is_blocked)
        => Range(state.detected_interfaces) \subseteq block_issued

\* every read of the tick's sampling loop found both sources failing
AllSourcesFailed ==
    Sampled /\ last_read.failed >= Len(state.detected_interfaces)

\* C24: a completed tick in which every counter source failed for every tracked
\* interface (the total reads 0) does not relax enforcement: if it found the state
\* LIMITING and did no rollover, the state is still LIMITING and no rate-removal
\* call was issued.
ZeroReadingNeverRelaxes ==
    (TickCompleted /\ AllSourcesFailed /\ ~rolled /\ entry.is_limiting /\ ~entry.is_blocked)
        => /\ total_units = 0
           /\ state.is_limiting
           /\ \A i \in Range(state.detected_interfaces) : <<"disable", i>> \notin calls

\* C25: when an error has escaped a tick, the control fields of the in-memory state
\* (is_blocked, is_limiting, cycle_start_ts) are what they were when the tick
\* started, and the failure counter of the loop has not moved before the handler
\* counts the failure: the failed tick has had no partial effect on them.
FailedTickLeavesStateAlone ==
    pc = "except"
        => /\ ControlFields(state) = entry
           /\ consecutive_failures = failed_ticks

\* C26: a completed tick that did the rollover reset has sampled and decided in
\* the same tick, and its final state follows from its reading alone: BLOCKED if
\* remaining <= hard limit (with a block call for every tracked interface, after
\* the unblock calls of the reset if the tick found the state blocked), otherwise
\* LIMITING if used_percent >= threshold, otherwise NORMAL.
RolloverTickDecidesOnReading ==
    (TickCompleted /\ rolled)
        => /\ Sampled
           /\ ControlState(state) =
                  IF AtOrUnderHardLimit(total_units) THEN "BLOCKED"
                  ELSE IF AtOrOverThreshold(total_units) THEN "LIMITING" ELSE "NORMAL"
           /\ state.is_blocked
                  => \A i \in Range(state.detected_interfaces) :
                         /\ <<"block", i>> \in calls
                         /\ entry.is_blocked => <<"unblock", i>> \in calls

\* C26 witness: a completed tick that found the state blocked, reset it, read
\* remaining <= hard limit and ended blocked again: unblock and block were both
\* called for the interface in that tick.
UnblockedAndBlockedAgain ==
    /\ TickCompleted /\ rolled
    /\ entry.is_blocked
    /\ AtOrUnderHardLimit(total_units)
    /\ state.is_blocked /\ state.cycle_start_ts = cycle.start
    /\ {<<"unblock", "eth0">>, <<"block", "eth0">>} \subseteq calls

\* C12: a read in which vnstat and sysfs both fail returns 0 bytes (the tick's
\* total does not move), increments the sysfs failure counter by one, and raises
\* nothing: the tick goes on to its next step and the consecutive-failure counter
\* is not touched.
BothSourcesFailReadsZero ==
    [][(pc \in {"report", "sample"} /\ last_read'.src = "none")
          => /\ last_read'.returned = 0
             /\ total_units' = total_units
             /\ state'.sysfs_failures = state.sysfs_failures + 1
             /\ pc' \in {"report", "sample", "block"}
             /\ raised' = "none"
             /\ consecutive_failures' = consecutive_failures]_vars

\* C12 witness: a tick completed although the last read found both sources
\* failing; the failure is counted and the supervisor's counter is 0.
TickCompletedOnFailedRead ==
    /\ TickCompleted
    /\ last_read.src = "none"
    /\ last_read.returned = 0
    /\ state.sysfs_failures = 1
    /\ raised = "none"
    /\ consecutive_failures = 0

\* C15: a failure of save_state at the end of a tick does not abort the tick: the
\* tick is never in the exception handler because of save_state, so it is not
\* counted as a failed tick and no back-off follows.
SaveFailureNeverAborts ==
    raised = "save_state" => (pc # "except" /\ pc # "exit")

\* C16: a failure of an enforcement call does not abort the tick: the tick is never
\* in the exception handler because of update_tc_limit or disable_tc_limit (and
\* block_network and unblock_network raise nothing).
EnforcementFailureNeverAborts ==
    raised \in {"update", "disable"} => (pc # "except" /\ pc # "exit")

\* C19: no cycle is reset for more than once: after a tick has done the rollover
\* reset for a computed cycle, no later tick that computes the same cycle does it
\* again.
OneResetPerCycle ==
    resets.count <= 1

\* the rollover branch has just replaced the state; nothing has been read since
JustReset == AfterRolloverBranch /\ rolled /\ last_read = NoRead

\* C20: right after a rollover reset, doing the reset again for the same computed
\* cycle gives the same state: the record it builds from the reset state is the
\* reset state, and it issues no enforcement call.
ResetTwiceIsResetOnce ==
    JustReset
        => /\ FreshState(state, cycle) = state
           /\ RolloverCalls(state, state.detected_interfaces, tc_initialized) = <<>>

\* C20 witness: right after a reset of a limiting state with non-zero report
\* timestamp, on which a second reset changes nothing.
ResetOfLimitingState ==
    /\ JustReset
    /\ entry.is_limiting /\ ~entry.is_blocked
    /\ state.last_daily_report # 0
    /\ state.cycle_start_ts = cycle.start
    /\ FreshState(FreshState(state, cycle), cycle) = state

---------------------------------------------------------------------------
(* Properties of start-up (SpecLoad) *)

\* C17: whatever state file start-up finds (absent, not JSON, complete, or
\* lacking keys), start-up does not crash and no tick ever fails on a key the
\* loaded dict lacks.
StartupToleratesAnyStateFile ==
    pc # "crashed" /\ raised # "KeyError"

---------------------------------------------------------------------------
(* Properties of the supervisor (SpecSupervisor) *)

\* C13: consecutive_failures is the number of ticks that ended in the handler
\* since the last tick that did not (a tick that reaches its sleep resets it to
\* 0), and the process has exited from the handler exactly when that number has
\* reached MAX_CONSECUTIVE_FAILURES; below it the loop is still running.
ExitAtMaxConsecutiveFailures ==
    /\ consecutive_failures = failed_ticks
    /\ pc = "exit" <=> failed_ticks >= MAX_CONSECUTIVE_FAILURES
    /\ failed_ticks <= MAX_CONSECUTIVE_FAILURES

\* C13 witness: the process has exited after ten failed ticks in a row that came
\* after at least one tick that reached its sleep.
ExitAfterEarlierSuccess ==
    /\ pc = "exit"
    /\ failed_ticks = MAX_CONSECUTIVE_FAILURES
    /\ clock >= ClockStart + ClockStep

\* C14: after the n-th failed tick in a row, n below the maximum, the handler
\* waits min(600, 2^n) seconds before the next tick: not the poll interval, never
\* more than 600, and not less than after the (n-1)-th.
BackoffIsCappedPowerOfTwo ==
    [][(pc = "except" /\ pc' = "tick")
          => LET n == failed_ticks'
                 waited == clock' - clock
             IN  /\ n >= 1 /\ n < MAX_CONSECUTIVE_FAILURES
                 /\ waited = Min(600, Pow2(n))
                 /\ waited <= 600
                 /\ waited # UPDATE_INTERVAL_SEC
                 /\ n > 1 => waited >= Min(600, Pow2(n - 1))]_vars

\* C14 witness: nine ticks in a row have failed from the start; the handler has
\* waited 2 + 4 + ... + 512 seconds in all.
NineBackoffsWaited ==
    /\ pc = "tick"
    /\ consecutive_failures = 9
    /\ clock = ClockStart + 1022

---------------------------------------------------------------------------
(* Properties of the usage reader (SpecRead) *)

\* C11: a call in which vnstat answers sets vnstat_failures to 0, returns the vnstat
\* value and leaves sysfs_failures as it was; a call in which vnstat fails and sysfs
\* answers adds one to vnstat_failures, sets sysfs_failures to 0 and returns the
\* sysfs value; no other key changes.  After n calls that all met a failing vnstat
\* and an answering sysfs, vnstat_failures is n and sysfs_failures is 0.
ReadCountsAndFallsBack ==
    [][/\ last_read'.src = "vnstat"
           => /\ state'.vnstat_failures = 0
              /\ state'.sysfs_failures = state.sysfs_failures
              /\ last_read'.returned = last_read'.offered
       /\ last_read'.src = "sysfs"
           => /\ state'.vnstat_failures = state.vnstat_failures + 1
              /\ state'.sysfs_failures = 0
              /\ last_read'.returned = last_read'.offered
       /\ state' = [state EXCEPT !.vnstat_failures = state'.vnstat_failures,
                                  !.sysfs_failures = state'.sysfs_failures]
       /\ last_read'.run = idx'
           => state'.vnstat_failures = idx' /\ state'.sysfs_failures = 0]_vars

\* C11 witness: five calls in a row met a failing vnstat and an answering sysfs;
\* the vnstat counter is 5, the sysfs counter 0, the value returned is sysfs's.
FiveFallbackReads ==
    /\ pc = "read_input"
    /\ idx = 5
    /\ last_read.run = 5
    /\ state.vnstat_failures = 5
    /\ state.sysfs_failures = 0
    /\ last_read.src = "sysfs"
    /\ last_read.returned = 1800

\* C18: when a source's failure counter is beyond its limit (vnstat_failures
\* above VNSTAT_FAILURE_LIMIT, sysfs_failures above SYSFS_FAILURE_LIMIT), a failure
\* notification has been raised and recorded in last_failure_notification.
FailuresBeyondLimitNotified ==
    (state.vnstat_failures > VNSTAT_FAILURE_LIMIT
         \/ state.sysfs_failures > SYSFS_FAILURE_LIMIT)
        => state.last_failure_notification > 0

---------------------------------------------------------------------------
(* Properties of the rate formula (SpecRate) *)

RateComputed == pc = "rate_done"

\* C4: every computed target rate is >= MIN_RATE_KBPS, for every usage and every
\* distance to the end of the cycle, with the time remaining at least 1 second and
\* the remaining quota after the buffer at least 0.
RateAtLeastFloor ==
    RateComputed
        => /\ BigLeq(BigFromNat(MIN_RATE_KBPS), target_rate_kbps)
           /\ time_remaining_sec >= 1
           /\ SafeRemainingUnits(total_units) >= 0

\* C4 witness: usage above the quota and the end of the cycle already passed; the
\* rate is the floor.
RateFloorWhenOverQuota ==
    /\ RateComputed
    /\ RemainingUnits(total_units) < 0
    /\ cycle.end - current_time < 0
    /\ time_remaining_sec = 1
    /\ target_rate_kbps = BigFromNat(MIN_RATE_KBPS)

\* the time remaining the loop computes for a distance d to the end of the cycle
RateTimes == {Max(1, d) : d \in RateDistances}

\* the rate is non-increasing as the usage increases, the time remaining fixed
RateFallsWithUsage ==
    \A u \in RateTotals :
        u >= total_units
            => BigLeq(TargetRateKbps(u, time_remaining_sec), target_rate_kbps)

\* C5 as stated: the rate is non-increasing as the usage increases (time fixed)
\* and non-increasing as the time remaining decreases (usage fixed).
RateMonotoneAsStated ==
    RateComputed
        => /\ RateFallsWithUsage
           /\ \A t \in RateTimes :
                  t <= time_remaining_sec
                      => BigLeq(TargetRateKbps(total_units, t), target_rate_kbps)

\* C5 amended: the rate is non-increasing as the usage increases (time fixed) and
\* non-decreasing as the time remaining decreases (usage fixed).
RateMonotone ==
    RateComputed
        => /\ RateFallsWithUsage
           /\ \A t \in RateTimes :
                  t <= time_remaining_sec
                      => BigLeq(target_rate_kbps, TargetRateKbps(total_units, t))

\* C5 witness: a computed rate for which more usage gives a strictly lower rate and
\* less time gives a strictly higher rate.
RateStrictlyMoves ==
    /\ RateComputed
    /\ \E u \in RateTotals :
           u > total_units
               /\ ~BigLeq(target_rate_kbps, TargetRateKbps(u, time_remaining_sec))
    /\ \E t \in RateTimes :
           t < time_remaining_sec
               /\ ~BigLeq(TargetRateKbps(total_units, t), target_rate_kbps)

---------------------------------------------------------------------------
(* Properties of the cycle calculator (SpecCycle) *)

CycleComputed == pc = "cycle_done"

\* the naive date a timestamp of the calculator stands for
DateOfTimestamp(ts) == CivilFromDays((ts + tz) \div SECONDS_PER_DAY)

\* the month after the month of a date
MonthAfter(d) ==
    IF d.month = 12 THEN [year |-> d.year + 1, month |-> 1]
    ELSE [year |-> d.year, month |-> d.month + 1]

\* C6: the computed cycle contains the instant it was computed at.
CycleContainsNow ==
    CycleComputed => (cycle.start <= current_time /\ current_time <= cycle.end)

\* C7: the end of the cycle is one second before the clamped start day of the
\* month after the start, and the cycle computed one second after the end starts
\* at that second.
CycleEndIsNextAnchor ==
    CycleComputed
        => LET s == DateOfTimestamp(cycle.start)
               n == MonthAfter(s)
               d == Min(ClampStartDay(startDay), DaysInMonth(n.year, n.month))
           IN  /\ cycle.end + 1 = Timestamp(NaiveMidnight(n.year, n.month, d), tz)
               /\ get_cycle_timestamps(cycle.end + 1, startDay, tz).start = cycle.end + 1

\* C8: the start and the instant after the end are midnights of valid dates; the
\* start lies in the month the day-of-month rule selects (the current month, or
\* the month before) and each of the two is on the start day if its month has
\* that day and on the last day of its month if not.
CycleClampsToLastDay ==
    CycleComputed
        => LET sd == ClampStartDay(startDay)
               n  == CivilFromDays(NaiveNow(clock, tz) \div SECONDS_PER_DAY)
               s  == DateOfTimestamp(cycle.start)
               e  == DateOfTimestamp(cycle.end + 1)
           IN  /\ (cycle.start + tz) % SECONDS_PER_DAY = 0
               /\ (cycle.end + 1 + tz) % SECONDS_PER_DAY = 0
               /\ IF n.day >= sd
                  THEN s.year = n.year /\ s.month = n.month
                  ELSE MonthAfter(s) = [year |-> n.year, month |-> n.month]
               /\ s.day = Min(sd, DaysInMonth(s.year, s.month))
               /\ e.day = Min(sd, DaysInMonth(e.year, e.month))

\* C8 witness: start day 31, a start clamped to the last day of February and an
\* end clamped to the day before the last day of a 30-day month.
CycleClampedBothEnds ==
    /\ CycleComputed
    /\ startDay = 31
    /\ DateOfTimestamp(cycle.start).month = 2
    /\ DateOfTimestamp(cycle.start).day = 29
    /\ DateOfTimestamp(cycle.end + 1).month = 4
    /\ DateOfTimestamp(cycle.end + 1).day = 30

====
